---- MODULE Spec2Model ----
(***************************************************************************)
(* OI monitoring bot: the Collector (oi_collect.py) appends observations   *)
(* to the table oi_data, the Analyzer (analyzer_bot.py) listens on the     *)
(* channel new_data_event and, for each notification, runs one detection   *)
(* cycle: enumerate tokens, read the two latest rows of each, alert on the *)
(* delta, delete the previous row.                                         *)
(*                                                                         *)
(* The two programs are separate processes that share only the table, so   *)
(* the Collector's committed insert interleaves with every statement of    *)
(* the Analyzer (READ COMMITTED: each statement sees what is committed).   *)
(* Metric values are integers in percent; OI_DELTA_THRESHOLD is its        *)
(* default, 10.                                                            *)
(***************************************************************************)
EXTENDS Integers, Sequences, FiniteSets, TLC

\* ---- bounds ----
MaxRows == 4          \* rows the Collector inserts in a run of the model
MaxStored == 3        \* rows already in the table when SpecRead starts

\* ---- program constants ----
OI_DELTA_THRESHOLD == 10

Tokens == {"BTC", "ETH"}
Values == {0, 10}
Mandatory == {"DATABASE_URL", "TELEGRAM_BOT_TOKEN", "TELEGRAM_CHAT_ID"}
NoRecord == [id |-> 0, tok |-> "", val |-> 0, ts |-> 0]

VARIABLES
    env,                \* the analyzer's mandatory settings that are set (and not empty)
    collector_env,      \* the Collector's DATABASE_URL is set
    collector,          \* the Collector script: "start", "scan" or "exited"
    store,              \* oi_data: set of rows [id, tok, val, ts]
    nextId,             \* the SERIAL sequence of oi_data.id
    clock,              \* NOW() of the next Collector transaction
    channel,            \* notifications sent on new_data_event, not yet polled
    notifies,           \* listener_conn.notifies (their number)
    pc,                 \* the Analyzer's position in its main loop
    analysis_tx,        \* transaction state of analysis_conn
    tokens_to_process,  \* the list the cycle iterates over
    idx,                \* position of the for loop in tokens_to_process
    current_record,
    previous_record,
    \* ---- history, written but never read by the program ----
    inserted,           \* <<token, scan_time>> of every row ever committed
    evaluated,          \* pairs <<current id, previous id>> evaluated so far
    alerted,            \* pairs for which an alert was handed to Telegram
    enumCount,          \* rows per token seen by this cycle's enumeration
    enumOK,             \* this cycle's enumeration succeeded
    cycleRead,          \* tokens for which this cycle read a pair
    cyclePruned,        \* tokens for which this cycle invoked the prune
    cycleQuiet,         \* no statement failed and no insert landed since this cycle's enumeration
    lastCycle,          \* "quiet"/"pruned": the previous cycle was quiet (and pruned), no insert since
    sincePrune,         \* per token: rows inserted after the current of its last committed prune
    everPruned,         \* tokens for which a prune has committed
    cycleAlert,         \* per token: the alert of this cycle, "none", "sent" or "failed"
    failedPrune,        \* tokens whose last delete failed, not enumerated since
    stoppedAt           \* where the analyzer was when a signal ended it ("" if none did)

vars == <<env, collector_env, collector, store, nextId, clock, channel, notifies, pc, analysis_tx,
          tokens_to_process, idx, current_record, previous_record,
          inserted, evaluated, alerted, enumCount, enumOK, cycleRead,
          cyclePruned, cycleQuiet, lastCycle, sincePrune, everPruned, cycleAlert,
          failedPrune, stoppedAt>>

\* ---- the table ----
Stamp(r) == <<r.tok, r.ts>>
RowsOf(S, tok) == {r \in S : r.tok = tok}
CountOf(S, tok) == Cardinality(RowsOf(S, tok))

\* mutant of the ORDER BY: the row inserted last (greatest id)
Newest_ById(R) == CHOOSE r \in R : \A q \in R : q.id <= r.id

\* ORDER BY scan_time DESC: the row of R with the greatest scan_time
Newest(R) == CHOOSE r \in R : \A q \in R : q.ts <= r.ts

\* mutants of the HAVING clause: any token that has a row; 2 rows or more
HavingCount_AtLeastOne(n) == n >= 1
HavingCount_AtLeastTwo(n) == n >= 2

\* HAVING COUNT(*) = 2
HavingCount(n) == n = 2

\* SELECT token_symbol FROM oi_data GROUP BY token_symbol HAVING COUNT(*) = 2
get_tokens_to_process(S) ==
    {tok \in Tokens : CountOf(S, tok) > 0 /\ HavingCount(CountOf(S, tok))}

\* the orders in which the query may return a set of tokens (no ORDER BY)
Orderings(T) ==
    {s \in UNION {[1..n -> T] : n \in {Cardinality(T)}} :
        \A i, j \in DOMAIN s : i # j => s[i] # s[j]}

\* SELECT ... WHERE token_symbol = tok ORDER BY scan_time DESC LIMIT 2,
\* returned as <<current, previous>>, or <<NoRecord, NoRecord>> for (None, None)
get_latest_records(S, tok) ==
    LET R == RowsOf(S, tok) IN
    IF Cardinality(R) >= 2
    THEN LET cur == Newest(R) IN <<cur, Newest(R \ {cur})>>
    ELSE <<NoRecord, NoRecord>>

\* mutant of the comparison: strict
AlertNeeded_Strict(current_oi, prev_oi) == current_oi - prev_oi > OI_DELTA_THRESHOLD

\* oi_delta >= OI_DELTA_THRESHOLD
AlertNeeded(current_oi, prev_oi) == current_oi - prev_oi >= OI_DELTA_THRESHOLD

\* mutants of the WHERE clause of the DELETE: every row of the token; every
\* row of the token up to the previous one
DeleteMatches_TokenOnly(r, previous_record_id, tok) == r.tok = tok
DeleteMatches_UpToPrevious(r, previous_record_id, tok) ==
    r.tok = tok /\ r.id <= previous_record_id

\* DELETE FROM oi_data WHERE id = previous_record_id AND token_symbol = tok
DeleteMatches(r, previous_record_id, tok) ==
    r.id = previous_record_id /\ r.tok = tok

cleanup_old_records(S, previous_record_id, tok) ==
    {r \in S : ~DeleteMatches(r, previous_record_id, tok)}

TypeOK ==
    /\ nextId \in 1..(MaxRows + 1)
    /\ clock \in Nat
    /\ channel \in Nat
    /\ notifies \in Nat
    /\ env \subseteq Mandatory
    /\ collector_env \in BOOLEAN
    /\ collector \in {"start", "scan", "exited"}
    /\ pc \in {"start", "exited", "stopped", "poll", "drain", "connect", "enum", "read", "alert",
               "cleanup", "close", "crashed"}
    /\ analysis_tx \in {"idle", "open", "aborted"}
    /\ idx \in Nat
    /\ \A r \in store : Stamp(r) \in inserted

Init ==
    /\ env \in SUBSET Mandatory
    /\ collector_env \in BOOLEAN
    /\ collector = "start"
    /\ store = {}
    /\ nextId = 1
    /\ clock = 1
    /\ channel = 0
    /\ notifies = 0
    /\ pc = "start"
    /\ analysis_tx = "idle"
    /\ tokens_to_process = <<>>
    /\ idx = 1
    /\ current_record = NoRecord
    /\ previous_record = NoRecord
    /\ inserted = {}
    /\ evaluated = {}
    /\ alerted = {}
    /\ enumCount = [t \in Tokens |-> 0]
    /\ enumOK = FALSE
    /\ cycleRead = {}
    /\ cyclePruned = {}
    /\ cycleQuiet = FALSE
    /\ lastCycle = "dirty"
    /\ sincePrune = [t \in Tokens |-> 0]
    /\ everPruned = {}
    /\ cycleAlert = [t \in Tokens |-> "none"]
    /\ failedPrune = {}
    /\ stoppedAt = ""

analyzerVars == <<pc, analysis_tx, tokens_to_process, idx, current_record,
                  previous_record, evaluated, alerted, enumCount, enumOK,
                  cycleRead, cyclePruned, cycleAlert, everPruned, notifies,
                  failedPrune, stoppedAt>>

\* ---- Collector: oi_collect.py ----

\* the order in which get_top_symbols lists the tokens (the provider's ranking)
TokenRank == <<"BTC", "ETH">>

\* position of tok among the tokens of the batch, in ranking order
RankIn(B, tok) ==
    Cardinality({i \in DOMAIN TokenRank :
        TokenRank[i] \in B /\ \E j \in DOMAIN TokenRank : j >= i /\ TokenRank[j] = tok})

\* INSERT INTO oi_data (token_symbol, token_name, oi_growth_4h): one row per
\* item of the batch, id from the sequence, scan_time = NOW() of the transaction
records_to_insert(batch) ==
    {[id |-> nextId + RankIn(DOMAIN batch, tok) - 1, tok |-> tok,
      val |-> batch[tok], ts |-> clock] : tok \in DOMAIN batch}

Batches == UNION {[B -> Values] : B \in (SUBSET Tokens) \ {{}}}

tableVars == <<store, nextId, clock, channel, inserted, sincePrune, cycleQuiet,
               lastCycle>>

\* mutant of the Collector's check: the scan starts without DATABASE_URL
CollectorConfigOK_Always(url) == TRUE

\* if not DATABASE_URL: ... else: ...
CollectorConfigOK(url) == url

\* DATABASE_URL is not set: the script prints and ends
CollectorConfigMissing ==
    /\ collector = "start"
    /\ ~CollectorConfigOK(collector_env)
    /\ collector' = "exited"
    /\ UNCHANGED <<analyzerVars, tableVars, env, collector_env>>

\* conn = get_db_connection() succeeds: setup_database, then the scan.  (The
\* runs the scheduler starts one after the other, with the same environment,
\* are not told apart: "scan" lasts.)
CollectorConnect ==
    /\ collector = "start"
    /\ CollectorConfigOK(collector_env)
    /\ collector' = "scan"
    /\ UNCHANGED <<analyzerVars, tableVars, env, collector_env>>

\* get_db_connection() returns None: the script ends without a scan
CollectorConnectFail ==
    /\ collector = "start"
    /\ CollectorConfigOK(collector_env)
    /\ collector' = "exited"
    /\ UNCHANGED <<analyzerVars, tableVars, env, collector_env>>

\* the store emits one event on new_data_event when an insert commits (the
\* trigger that does so is installed in the database, not by these programs)
NotifyNewData(ch) == ch + 1

\* insert_oi_data commits; the table's insert trigger notifies new_data_event.
\* (A failed insert rolls back and leaves the table and the channel as they
\* were: it is a stuttering step.)
InsertCommit(batch) ==
    /\ collector = "scan"
    /\ nextId + Cardinality(DOMAIN batch) - 1 <= MaxRows
    /\ store' = store \cup records_to_insert(batch)
    /\ inserted' = inserted \cup {Stamp(r) : r \in records_to_insert(batch)}
    /\ nextId' = nextId + Cardinality(DOMAIN batch)
    /\ clock' = clock + 1
    /\ channel' = NotifyNewData(channel)
    /\ cycleQuiet' = FALSE
    /\ lastCycle' = "dirty"
    /\ sincePrune' = [t \in Tokens |->
            IF t \in DOMAIN batch THEN sincePrune[t] + 1 ELSE sincePrune[t]]
    /\ UNCHANGED <<analyzerVars, collector, env, collector_env>>

\* ---- Analyzer: analyzer_bot.py ----

histVars == <<inserted, sincePrune, failedPrune>>
cycleVars == <<tokens_to_process, idx, enumCount, enumOK, cycleRead,
               cyclePruned, cycleAlert>>
pairVars == <<current_record, previous_record, evaluated, alerted>>
\* what no step of the running analyzer changes
collectorVars == <<nextId, clock, collector, env, collector_env, stoppedAt>>

\* mutant of the check of the settings: one of them is enough
ConfigOK_Any(e) == e \cap Mandatory # {}

\* all([DATABASE_URL, TELEGRAM_BOT_TOKEN, TELEGRAM_CHAT_ID])
ConfigOK(e) == Mandatory \subseteq e

startFrame == <<store, channel, notifies, analysis_tx, cycleQuiet, lastCycle,
                everPruned>>

\* a setting is missing: the script prints [CRITICAL] and ends
StartConfigMissing ==
    /\ pc = "start"
    /\ ~ConfigOK(env)
    /\ pc' = "exited"
    /\ UNCHANGED startFrame
    /\ UNCHANGED <<histVars, cycleVars, pairVars, collectorVars>>

\* listener_conn = get_db_connection(); LISTEN new_data_event
StartListen ==
    /\ pc = "start"
    /\ ConfigOK(env)
    /\ pc' = "poll"
    /\ UNCHANGED startFrame
    /\ UNCHANGED <<histVars, cycleVars, pairVars, collectorVars>>

\* get_db_connection() returns None: if listener_conn is false, the script ends
StartNoConnection ==
    /\ pc = "start"
    /\ ConfigOK(env)
    /\ pc' = "exited"
    /\ UNCHANGED startFrame
    /\ UNCHANGED <<histVars, cycleVars, pairVars, collectorVars>>

\* listener_conn.poll() delivers what was notified
PollOK ==
    /\ pc = "poll"
    /\ notifies' = notifies + channel
    /\ channel' = 0
    /\ pc' = "drain"
    /\ UNCHANGED <<store, analysis_tx, cycleQuiet, lastCycle, everPruned>>
    /\ UNCHANGED <<histVars, cycleVars, pairVars, collectorVars>>

\* listener_conn.poll() raises: nothing catches it
PollFail ==
    /\ pc = "poll"
    /\ pc' = "crashed"
    /\ UNCHANGED <<store, channel, notifies, analysis_tx, cycleQuiet, lastCycle,
                   everPruned>>
    /\ UNCHANGED <<histVars, cycleVars, pairVars, collectorVars>>

\* while listener_conn.notifies: notification = listener_conn.notifies.pop(0)
PopNotify ==
    /\ pc = "drain"
    /\ notifies > 0
    /\ notifies' = notifies - 1
    /\ pc' = "connect"
    /\ UNCHANGED <<store, channel, analysis_tx, cycleQuiet, lastCycle, everPruned>>
    /\ UNCHANGED <<histVars, cycleVars, pairVars, collectorVars>>

\* notifies is empty: time.sleep(1), back to poll()
Sleep ==
    /\ pc = "drain"
    /\ notifies = 0
    /\ pc' = "poll"
    /\ UNCHANGED <<store, channel, notifies, analysis_tx, cycleQuiet, lastCycle,
                   everPruned>>
    /\ UNCHANGED <<histVars, cycleVars, pairVars, collectorVars>>

\* analysis_conn = get_db_connection() succeeds: a detection cycle starts
ConnectOK ==
    /\ pc = "connect"
    /\ pc' = "enum"
    /\ analysis_tx' = "idle"
    /\ UNCHANGED <<store, channel, notifies, cycleQuiet, lastCycle, everPruned>>
    /\ UNCHANGED <<histVars, cycleVars, pairVars, collectorVars>>

\* get_db_connection() returns None: the notification is dropped
ConnectFail ==
    /\ pc = "connect"
    /\ pc' = "drain"
    /\ UNCHANGED <<store, channel, notifies, analysis_tx, cycleQuiet, lastCycle,
                   everPruned>>
    /\ UNCHANGED <<histVars, cycleVars, pairVars, collectorVars>>

\* the for loop moves to the next token, or the cycle ends
NextPc(i, toks) == IF i > Len(toks) THEN "close" ELSE "read"

\* tokens_to_process = get_tokens_to_process(analysis_conn)
EnumOK ==
    /\ pc = "enum"
    /\ tokens_to_process' \in Orderings(get_tokens_to_process(store))
    /\ idx' = 1
    /\ pc' = NextPc(1, tokens_to_process')
    /\ analysis_tx' = "open"
    /\ enumCount' = [t \in Tokens |-> CountOf(store, t)]
    /\ enumOK' = TRUE
    /\ cycleQuiet' = TRUE
    /\ cycleRead' = {}
    /\ cyclePruned' = {}
    /\ cycleAlert' = [t \in Tokens |-> "none"]
    /\ UNCHANGED <<store, channel, notifies, lastCycle, everPruned>>
    /\ failedPrune' = {}
    /\ UNCHANGED <<inserted, sincePrune, pairVars, collectorVars>>

\* the query fails: get_tokens_to_process returns []
EnumFail ==
    /\ pc = "enum"
    /\ tokens_to_process' = <<>>
    /\ idx' = 1
    /\ pc' = "close"
    /\ analysis_tx' = "aborted"
    /\ enumCount' = [t \in Tokens |-> CountOf(store, t)]
    /\ enumOK' = FALSE
    /\ cycleQuiet' = FALSE
    /\ cycleRead' = {}
    /\ cyclePruned' = {}
    /\ cycleAlert' = [t \in Tokens |-> "none"]
    /\ UNCHANGED <<store, channel, notifies, lastCycle, everPruned>>
    /\ UNCHANGED <<histVars, pairVars, collectorVars>>

\* current_record, previous_record = get_latest_records(analysis_conn, token)
\* and, when both are set, the decision of line 115
ReadOK ==
    /\ pc = "read"
    /\ analysis_tx # "aborted"
    /\ LET token == tokens_to_process[idx]
           pair == get_latest_records(store, token)
       IN  IF pair[1] # NoRecord
           THEN /\ current_record' = pair[1]
                /\ previous_record' = pair[2]
                /\ evaluated' = evaluated \cup {<<pair[1].id, pair[2].id>>}
                /\ cycleRead' = cycleRead \cup {token}
                /\ pc' = IF AlertNeeded(pair[1].val, pair[2].val)
                         THEN "alert" ELSE "cleanup"
                /\ idx' = idx
           ELSE /\ pc' = NextPc(idx + 1, tokens_to_process)
                /\ idx' = idx + 1
                /\ UNCHANGED <<current_record, previous_record, evaluated,
                               cycleRead>>
    /\ analysis_tx' = "open"
    /\ UNCHANGED <<store, channel, notifies, cycleQuiet, lastCycle, everPruned,
                   tokens_to_process, enumCount, enumOK, cyclePruned, alerted,
                   cycleAlert>>
    /\ UNCHANGED <<histVars, collectorVars>>

\* the query fails (it always does once the transaction is aborted):
\* get_latest_records returns (None, None) and the token is skipped
ReadFail ==
    /\ pc = "read"
    /\ analysis_tx' = "aborted"
    /\ pc' = NextPc(idx + 1, tokens_to_process)
    /\ idx' = idx + 1
    /\ cycleQuiet' = FALSE
    /\ UNCHANGED <<store, channel, notifies, lastCycle, everPruned,
                   tokens_to_process, enumCount, enumOK, cycleRead, cyclePruned,
                   cycleAlert>>
    /\ UNCHANGED <<histVars, pairVars, collectorVars>>

\* mutant of send_telegram_alert: the exception of a failed send escapes
AfterAlert_Raises(sent) == IF sent THEN "cleanup" ELSE "crashed"

\* where the loop goes after send_telegram_alert returns: the function
\* catches every exception of the send
AfterAlert(sent) == "cleanup"

\* asyncio.run(send_telegram_alert(message))
SendAlert(sent) ==
    /\ pc = "alert"
    /\ alerted' = alerted \cup {<<current_record.id, previous_record.id>>}
    /\ pc' = AfterAlert(sent)
    /\ cycleAlert' = [cycleAlert EXCEPT ![tokens_to_process[idx]] =
                        IF sent THEN "sent" ELSE "failed"]
    /\ UNCHANGED <<store, channel, notifies, analysis_tx, cycleQuiet, lastCycle,
                   everPruned, current_record, previous_record, evaluated,
                   tokens_to_process, idx, enumCount, enumOK, cycleRead,
                   cyclePruned>>
    /\ UNCHANGED <<histVars, collectorVars>>

\* cleanup_old_records(analysis_conn, prev_id, token) commits.  The pair is
\* dead once the call returns (the next iteration assigns it before any use).
CleanupCommit ==
    /\ pc = "cleanup"
    /\ LET token == tokens_to_process[idx] IN
       /\ store' = cleanup_old_records(store, previous_record.id, token)
       /\ cyclePruned' = cyclePruned \cup {token}
       /\ everPruned' = everPruned \cup {token}
       /\ failedPrune' = failedPrune \ {token}
       /\ sincePrune' = [sincePrune EXCEPT ![token] =
              Cardinality({r \in RowsOf(store, token) : r.ts > current_record.ts})]
    /\ analysis_tx' = "idle"
    /\ pc' = NextPc(idx + 1, tokens_to_process)
    /\ idx' = idx + 1
    /\ current_record' = NoRecord
    /\ previous_record' = NoRecord
    /\ UNCHANGED <<channel, notifies, cycleQuiet, lastCycle, inserted,
                   tokens_to_process, enumCount, enumOK, cycleRead,
                   cycleAlert, evaluated, alerted>>
    /\ UNCHANGED collectorVars

\* the DELETE fails, conn.rollback() succeeds
CleanupRollback ==
    /\ pc = "cleanup"
    /\ cyclePruned' = cyclePruned \cup {tokens_to_process[idx]}
    /\ analysis_tx' = "idle"
    /\ pc' = NextPc(idx + 1, tokens_to_process)
    /\ idx' = idx + 1
    /\ cycleQuiet' = FALSE
    /\ current_record' = NoRecord
    /\ previous_record' = NoRecord
    /\ UNCHANGED <<store, channel, notifies, lastCycle, everPruned,
                   tokens_to_process, enumCount, enumOK, cycleRead,
                   cycleAlert, evaluated, alerted>>
    /\ failedPrune' = failedPrune \cup {tokens_to_process[idx]}
    /\ UNCHANGED <<inserted, sincePrune, collectorVars>>

\* the DELETE fails because the connection is gone and conn.rollback() raises
\* in the except block: nothing catches it
CleanupCrash ==
    /\ pc = "cleanup"
    /\ cyclePruned' = cyclePruned \cup {tokens_to_process[idx]}
    /\ pc' = "crashed"
    /\ cycleQuiet' = FALSE
    /\ UNCHANGED <<store, channel, notifies, analysis_tx, lastCycle, everPruned,
                   tokens_to_process, idx, enumCount, enumOK, cycleRead,
                   cycleAlert>>
    /\ failedPrune' = failedPrune \cup {tokens_to_process[idx]}
    /\ UNCHANGED <<inserted, sincePrune, pairVars, collectorVars>>

\* analysis_conn.close(): the cycle is over.  The loop's variables are dead
\* from here until the next cycle assigns them, and are cleared.
CloseConn ==
    /\ pc = "close"
    /\ analysis_tx' = "idle"
    /\ lastCycle' = IF enumOK /\ cycleQuiet
                    THEN (IF cyclePruned # {} THEN "pruned" ELSE "quiet")
                    ELSE "dirty"
    /\ pc' = "drain"
    /\ tokens_to_process' = <<>>
    /\ idx' = 1
    /\ enumCount' = [t \in Tokens |-> 0]
    /\ enumOK' = FALSE
    /\ cycleQuiet' = FALSE
    /\ cycleRead' = {}
    /\ cyclePruned' = {}
    /\ cycleAlert' = [t \in Tokens |-> "none"]
    /\ UNCHANGED <<store, channel, notifies, everPruned>>
    /\ UNCHANGED <<histVars, pairVars, collectorVars>>

Next ==
    \/ CollectorConfigMissing
    \/ CollectorConnect
    \/ CollectorConnectFail
    \/ \E batch \in Batches : InsertCommit(batch)
    \/ StartConfigMissing
    \/ StartListen
    \/ StartNoConnection
    \/ PollOK
    \/ PollFail
    \/ PopNotify
    \/ Sleep
    \/ ConnectOK
    \/ ConnectFail
    \/ EnumOK
    \/ EnumFail
    \/ ReadOK
    \/ ReadFail
    \/ \E sent \in BOOLEAN : SendAlert(sent)
    \/ CleanupCommit
    \/ CleanupRollback
    \/ CleanupCrash
    \/ CloseConn

Spec == Init /\ [][Next]_vars

\* ---- a table filled by overlapping Collector runs ----

\* scan_time is NOW(), the start of the inserting transaction, and id is drawn
\* from the sequence when the row is inserted: when two runs of oi_collect.py
\* overlap, the transaction that started first may draw the later ids, so
\* the order of the ids and the order of the scan_times of a token's rows
\* can differ.  Stores(n): the tables of n rows with ids 1..n, each with its
\* own scan_time in 1..n.
Stores(n) ==
    {{[id |-> i, tok |-> f[i][1], val |-> f[i][2], ts |-> g[i]] : i \in 1..n} :
        f \in [1..n -> Tokens \X Values],
        g \in {h \in [1..n -> 1..n] : \A i, j \in 1..n : i # j => h[i] # h[j]}}

\* both scripts are running, the analyzer is at its poll, the rows of the
\* table have been notified
InitRead ==
    /\ env = Mandatory
    /\ collector_env = TRUE
    /\ collector = "scan"
    /\ \E n \in 1..MaxStored :
          /\ store \in Stores(n)
          /\ nextId = n + 1
          /\ clock = n + 1
    /\ inserted = {Stamp(r) : r \in store}
    /\ sincePrune = [t \in Tokens |-> CountOf(store, t)]
    /\ channel = 1
    /\ notifies = 0
    /\ pc = "poll"
    /\ analysis_tx = "idle"
    /\ tokens_to_process = <<>>
    /\ idx = 1
    /\ current_record = NoRecord
    /\ previous_record = NoRecord
    /\ evaluated = {}
    /\ alerted = {}
    /\ enumCount = [t \in Tokens |-> 0]
    /\ enumOK = FALSE
    /\ cycleRead = {}
    /\ cyclePruned = {}
    /\ cycleQuiet = FALSE
    /\ lastCycle = "dirty"
    /\ everPruned = {}
    /\ cycleAlert = [t \in Tokens |-> "none"]
    /\ failedPrune = {}
    /\ stoppedAt = ""

\* the steps of the two running scripts
NextRead ==
    \/ \E batch \in Batches : InsertCommit(batch)
    \/ PollOK
    \/ PollFail
    \/ PopNotify
    \/ Sleep
    \/ ConnectOK
    \/ ConnectFail
    \/ EnumOK
    \/ EnumFail
    \/ ReadOK
    \/ ReadFail
    \/ \E sent \in BOOLEAN : SendAlert(sent)
    \/ CleanupCommit
    \/ CleanupRollback
    \/ CleanupCrash
    \/ CloseConn

SpecRead == InitRead /\ [][NextRead]_vars

\* ---- shutdown ----

\* The script installs no signal handler and its loop is `while True`: the
\* only way to ask it to stop is a signal.  SIGTERM ends the process at once;
\* SIGINT raises KeyboardInterrupt at the statement being run, which no
\* `except Exception` catches.  Either way the process ends where it is.
Interrupt ==
    /\ pc \notin {"start", "exited", "crashed", "stopped"}
    /\ stoppedAt' = pc
    /\ pc' = "stopped"
    /\ UNCHANGED <<store, channel, notifies, analysis_tx, cycleQuiet, lastCycle,
                   everPruned, nextId, clock, collector, env, collector_env>>
    /\ UNCHANGED <<histVars, cycleVars, pairVars>>

NextShutdown == Next \/ Interrupt

SpecShutdown == Init /\ [][NextShutdown]_vars

\* ---- properties ----

\* the token the for loop is at, while it is inside the loop body
InBody == pc \in {"alert", "cleanup"}
token == tokens_to_process[idx]
Candidates == {tokens_to_process[i] : i \in DOMAIN tokens_to_process}

\* C1: once the decision on a read pair is taken (the loop is at the prune),
\* an alert was handed to Telegram for it in this cycle if and only if
\* current - previous >= threshold; the bound is inclusive.
C1_AlertIffDeltaAtLeastThreshold ==
    /\ pc = "alert" =>
          current_record.val - previous_record.val >= OI_DELTA_THRESHOLD
    /\ pc = "cleanup" =>
          (cycleAlert[token] # "none"
             <=> current_record.val - previous_record.val >= OI_DELTA_THRESHOLD)

\* C1 witness: a delta exactly equal to the threshold has alerted
C1_Witness ==
    /\ pc = "cleanup"
    /\ current_record.val - previous_record.val = OI_DELTA_THRESHOLD
    /\ cycleAlert[token] # "none"

\* C2: no step deletes a row of, or dispatches an alert for, a token that
\* holds fewer than 2 rows, or that held fewer than 2 when the running cycle
\* enumerated its candidates.
C2_NoActionBelowTwoRows ==
    [][\A t \in Tokens :
          (CountOf(store, t) < 2 \/ enumCount[t] < 2) =>
              /\ RowsOf(store, t) \subseteq RowsOf(store', t)
              /\ cycleAlert'[t] \in {cycleAlert[t], "none"}]_vars

\* C2 witness: a cycle has pruned one token and is over, while the other
\* token holds a single row, as it did at the enumeration
C2_Witness ==
    /\ pc = "close"
    /\ enumOK
    /\ cyclePruned # {}
    /\ \E t \in Tokens : enumCount[t] = 1 /\ CountOf(store, t) = 1

\* C3: after a pair is read the loop goes to the alert or straight to the
\* prune; after the alert, sent or failed, it goes to the prune of the same
\* token with the same previous row; the prune step invokes the prune; so a
\* cycle that ends has pruned every token it read a pair for and has gone
\* through all its candidates.
C3_PruneAlwaysInvoked ==
    [][/\ (pc = "read" /\ cycleRead' # cycleRead) => pc' \in {"alert", "cleanup"}
       /\ (pc = "alert" /\ pc' # "alert") =>
             /\ pc' = "cleanup"
             /\ idx' = idx
             /\ tokens_to_process' = tokens_to_process
             /\ previous_record' = previous_record
       /\ (pc = "cleanup" /\ pc' # "cleanup") => token \in cyclePruned'
       /\ pc' = "close" =>
             /\ cycleRead' = cyclePruned'
             /\ idx' = Len(tokens_to_process') + 1]_vars

\* C3 witness: Telegram refused the alert of one token, its prune was
\* invoked, and the loop has gone on to the next candidate
C3_Witness ==
    /\ pc = "read"
    /\ \E t \in cyclePruned : cycleAlert[t] = "failed"

\* C4: a pair that is read has not been evaluated before, and a pair for
\* which an alert is dispatched has not alerted before.
C4_NoPairEvaluatedTwice ==
    [][/\ (pc = "read" /\ pc' \in {"alert", "cleanup"}) =>
            <<current_record'.id, previous_record'.id>> \notin evaluated
       /\ (pc = "alert" /\ pc' # "alert") =>
            <<current_record.id, previous_record.id>> \notin alerted]_vars

\* C5: after a successful enumeration the candidates are exactly the tokens
\* that held 2 or more rows when it ran.
C5_CandidatesAreTokensWithTwoOrMore ==
    enumOK => Candidates = {t \in Tokens : enumCount[t] >= 2}

\* C6: a cycle in which nothing failed and during which no insert landed
\* has, for every token that held 3 or more rows, read a pair and left one row.
C6_SelfHealing ==
    (pc = "close" /\ enumOK /\ cycleQuiet) =>
        \A t \in Tokens :
            enumCount[t] >= 3 => (t \in cycleRead /\ CountOf(store, t) = 1)

\* C7: when a cycle is over, a token holds at most its baseline (if it was
\* ever pruned) plus the rows inserted after the current of its last
\* committed prune.
C7_WindowBound ==
    pc = "close" =>
        \A t \in Tokens :
            CountOf(store, t) <=
                (IF t \in everPruned THEN 1 ELSE 0) + sincePrune[t]

C9_PairIsConsecutive ==
    InBody =>
        ~ \E s \in inserted :
            /\ s[1] = token
            /\ previous_record.ts < s[2]
            /\ s[2] < current_record.ts

C11_PoppedNotificationRunsCycle ==
    [][(pc = "connect" /\ pc' # "connect") => pc' = "enum"]_vars

\* C13: while the alert is in flight, analysis_conn has no open transaction.
C13_NoTransactionDuringAlert ==
    pc = "alert" => analysis_tx = "idle"

\* C14: after the subscription no store error ends the analyzer.
C14_NoFatalStoreError ==
    pc # "crashed"

\* C18: no step removes the row of a token that has the greatest scan_time,
\* so a token that holds a row holds one in every later state.
C18_NewestNeverDeleted ==
    [][\A r \in store :
          (\A q \in RowsOf(store, r.tok) : q.ts <= r.ts) => r \in store']_vars

\* C18 witness: the prune of a token has committed in this cycle and the token
\* is left with one row
C18_Witness ==
    /\ pc \in {"read", "close"}
    /\ \E t \in cyclePruned : enumCount[t] = 2 /\ CountOf(store, t) = 1

\* C19: the current of a pair for which an alert is dispatched has not been
\* the current of an earlier dispatched alert.
C19_CurrentAlertsAtMostOnce ==
    [][(pc = "alert" /\ pc' # "alert") =>
          \A p \in alerted : p[1] # current_record.id]_vars

\* C20: the step that ends the prune of a token removes nothing but the row
\* read as previous and adds nothing; no other step of the analyzer removes
\* a row.
C20_PruneFrame ==
    [][/\ (pc = "cleanup" /\ pc' # "cleanup") =>
            /\ store' \subseteq store
            /\ store \ store' \subseteq {previous_record}
       /\ pc # "cleanup" => store \subseteq store']_vars

\* C20 witness: a prune has committed in this cycle for a token of which
\* exactly one row is gone and two or more remain, while every row ever
\* inserted for the other token is still there
C20_Witness ==
    \E t \in cyclePruned : \E u \in Tokens \ {t} :
        /\ CountOf(store, t) >= 2
        /\ CountOf(store, t) + 1 = Cardinality({s \in inserted : s[1] = t})
        /\ CountOf(store, u) >= 1
        /\ CountOf(store, u) = Cardinality({s \in inserted : s[1] = u})

\* C12: the step of a delete that fails leaves the table as it was, and a
\* token whose delete failed is a candidate of the next successful enumeration.
C12_FailedDeleteRollsBackAndRetries ==
    [][/\ (pc = "cleanup" /\ pc' # "cleanup" /\ token \in failedPrune') =>
            store' = store
       /\ (pc = "enum" /\ enumOK') =>
            failedPrune \subseteq {tokens_to_process'[i] : i \in DOMAIN tokens_to_process'}]_vars

\* C15: with a mandatory setting missing the analyzer is never past its
\* start (no connection, no LISTEN, no cycle) and its only step is to end;
\* without DATABASE_URL the Collector never scans and inserts nothing.
C15_MissingConfigIsFatal ==
    /\ [](env # Mandatory => pc \in {"start", "exited"})
    /\ [](~collector_env =>
            (collector \in {"start", "exited"} /\ inserted = {} /\ nextId = 1))
    /\ [][(env # Mandatory /\ pc' # pc) => pc' = "exited"]_vars
    /\ [][(~collector_env /\ collector' # collector) => collector' = "exited"]_vars

\* C15 witness: the analyzer, one setting short, and the Collector, without
\* DATABASE_URL, have both ended
C15_Witness ==
    /\ Cardinality(env) = 2
    /\ ~collector_env
    /\ pc = "exited"
    /\ collector = "exited"

\* C16: the analyzer that a shutdown request has stopped was not inside a
\* detection cycle when it stopped (the cycle in flight ran to its end, and
\* analysis_conn was closed, before the process ended).
C16_CleanShutdown ==
    pc = "stopped" =>
        /\ stoppedAt \notin {"enum", "read", "alert", "cleanup", "close"}
        /\ analysis_tx = "idle"

\* C17: the pair that a read returns is made of rows of the token that are in
\* the table at the read; no row of the token has a scan_time greater than
\* current's, and none but current has one greater than previous'.
C17_PairIsLatestTwoByTimestamp ==
    [][(pc = "read" /\ pc' \in {"alert", "cleanup"}) =>
          LET R == RowsOf(store, token) IN
          /\ current_record' \in R
          /\ previous_record' \in R \ {current_record'}
          /\ \A r \in R : r.ts <= current_record'.ts
          /\ \A r \in R \ {current_record'} : r.ts <= previous_record'.ts]_vars

\* C17 witness: a pair has been read whose current has the smaller id
C17_Witness ==
    /\ InBody
    /\ current_record.id < previous_record.id
    /\ current_record.ts > previous_record.ts

====
